---- MODULE Spec2Model ----
(***************************************************************************)
(* Model of the signal-coordination worker of titration-curve              *)
(* (src/src/worker.rs) and of the callers that send it signals             *)
(* (src/src/app.rs and the watcher callback).                              *)
(*                                                                         *)
(* Threads: the UI thread (UiSend), the watcher's polling thread           *)
(* (WatcherCallback), the worker thread (every action guarded by pc) and   *)
(* the environment (FsChange: the file system the worker reads).           *)
(* send_signal and reset_signal_lock hold the signal_lock mutex for their  *)
(* whole body, so each is one atomic action.                               *)
(***************************************************************************)
EXTENDS Integers, Sequences, FiniteSets, TLC

\* ------------------------------------------------------------------ bounds
\* Number of signals that may pass the gate in one behaviour.
MaxSends == 3
\* Number of changes the environment makes to the file system.
MaxFsChanges == 1

\* ------------------------------------------------------------- signal type
Update == "Update"
FileDialog == "FileDialog"
Stop == "Stop"
Signal == {Update, FileDialog, Stop}
\* Option<Signal>::None, and Option<PathBuf>::None
None == "None"

\* The discriminants of the enum, which its derived Ord compares.
Rank(s) == CASE s = Update -> 0 [] s = FileDialog -> 1 [] s = Stop -> 2

\* is_lock with only FileDialog and Stop as lock signals.
is_lock_without_update(self) == self \in {FileDialog, Stop}

\* Signal::is_lock: the match is commented out, the body is `true`.
is_lock(self) == TRUE

\* should_skip with a strict comparison under an Update lock.
should_skip_strict(self, lock) ==
    CASE lock = Update -> Rank(self) < Rank(lock)
      [] lock = FileDialog -> Rank(self) <= Rank(lock)
      [] lock = Stop -> TRUE

\* should_skip with the comparisons turned round.
should_skip_reversed(self, lock) ==
    CASE lock = Update -> Rank(self) >= Rank(lock)
      [] lock = FileDialog -> Rank(self) >= Rank(lock)
      [] lock = Stop -> TRUE

\* Signal::should_skip(self, lock)
should_skip(self, lock) ==
    CASE lock = Update -> Rank(self) <= Rank(lock)
      [] lock = FileDialog -> Rank(self) <= Rank(lock)
      [] lock = Stop -> TRUE

\* can_unlock with strict comparisons.
can_unlock_strict(self, lock) ==
    CASE lock = Update -> Rank(self) > Rank(lock)
      [] lock = FileDialog -> Rank(self) > Rank(lock)
      [] lock = Stop -> FALSE

\* Signal::can_unlock(self, lock)
can_unlock(self, lock) ==
    CASE lock = Update -> Rank(self) >= Rank(lock)
      [] lock = FileDialog -> Rank(self) >= Rank(lock)
      [] lock = Stop -> FALSE

\* ------------------------------------------------------------- file system
Paths == {"a", "b"}

\* What a path can hold.  Missing: no file there.  Otherwise a workbook:
\* readable says whether open_workbook_auto succeeds, sheet says whether
\* sheet 0 is absent ("none"), unreadable ("error") or a table ("ok") with
\* its size h x w, whether the cells (0,2), (1,2), (2,2) are numbers (head),
\* and column 0 of the rows from row 5 on.
Num(v) == [is_f64 |-> TRUE, v |-> v]
Text == [is_f64 |-> FALSE, v |-> 0]
Sheet(state, h, w, head, col0) ==
    [state |-> state, h |-> h, w |-> w, head |-> head, col0 |-> col0]
Missing == [kind |-> "missing", readable |-> FALSE, sheet |-> Sheet("none", 0, 0, FALSE, <<>>)]
Corrupt == [kind |-> "file", readable |-> FALSE, sheet |-> Sheet("none", 0, 0, FALSE, <<>>)]
NoSheet == [kind |-> "file", readable |-> TRUE, sheet |-> Sheet("none", 0, 0, FALSE, <<>>)]
TextRow == [kind |-> "file", readable |-> TRUE, sheet |-> Sheet("ok", 7, 6, TRUE, <<Num(0), Text>>)]
TableA == [kind |-> "file", readable |-> TRUE, sheet |-> Sheet("ok", 7, 6, TRUE, <<Num(0), Num(5)>>)]
TableB == [kind |-> "file", readable |-> TRUE, sheet |-> Sheet("ok", 7, 6, TRUE, <<Num(5), Num(0)>>)]
Contents == {Missing, Corrupt, NoSheet, TextRow, TableA, TableB}

\* Path::is_file
is_file(c) == c.kind # "missing"

\* ---------------------------------------------------------------- responses
Unload == [tag |-> "Unload", err |-> "", items |-> <<>>]
Error(e) == [tag |-> "Error", err |-> e, items |-> <<>>]
Output(items) == [tag |-> "Output", err |-> "", items |-> items]

\* Input::calculate_output: one item per measured volume, in order.  The
\* float fields derived from total_v (c1, ph, poh) are not represented.
calculate_output(m_v) ==
    [i \in 1..Len(m_v) |-> [m_v |-> m_v[i], total_v |-> m_v[i] + 10]]

\* load_file: the response it sends for the content it finds at the path.
load_file(c) ==
    IF c.kind = "missing" \/ ~c.readable THEN Error("TableError")
    ELSE IF c.sheet.state = "none" THEN Error("NoTableInWorkbook")
    ELSE IF c.sheet.state = "error" THEN Error("TableError")
    ELSE IF c.sheet.h < 6 \/ c.sheet.w < 6 THEN Error("TableNotCorrectlyFormatted")
    ELSE IF ~c.sheet.head THEN Error("TableNotCorrectlyFormatted")
    ELSE IF \E i \in 1..Len(c.sheet.col0) : ~c.sheet.col0[i].is_f64
         THEN Error("TableNotCorrectlyFormatted")
    ELSE Output(calculate_output([i \in 1..Len(c.sheet.col0) |-> c.sheet.col0[i].v]))

\* -------------------------------------------------------------------- state
VARIABLES
    alive,        \* Worker.alive
    signal_lock,  \* Worker.signal_lock: None or the recorded signal
    queue,        \* the signal channel: sent and not yet received
    responses,    \* the response channel: everything sent on it, in order
    pc,           \* where the worker thread is
    signal,       \* worker_impl_try: the signal being handled
    file,         \* worker_impl_try: the file the picker returned
    path,         \* worker_impl_try: the tracked path
    watched,      \* the paths registered with the watcher
    result,       \* what worker_impl_try returned: "running", "Ok", "Err"
    loading,      \* number of load_file calls in progress
    workbook,     \* load_file: what it read at the path
    fs,           \* the file system
    fs_changes,   \* number of changes made to the file system
    stderr,       \* the kinds of lines printed with eprintln! so far
    accepted,     \* history: the signals that passed the gate, in order
    handled,      \* history: the signals the worker loop received, in order
    quiet         \* history: for each accepted signal, whether it was sent
                  \* while the worker waited with a tracked file, an empty
                  \* channel and no recorded lock

vars == <<alive, signal_lock, queue, responses, pc, signal, file, path,
          watched, result, loading, workbook, fs, fs_changes, stderr,
          accepted, handled, quiet>>

worker_vars == <<pc, signal, file, path, watched, result, loading, workbook>>

\* The receiver lives in worker_impl_try and is dropped when it returns.
receiver_dropped == pc \in {"exit", "dead"}
\* The watcher lives in worker_impl_try from its construction to the return.
watcher_running == pc \notin {"new_watcher", "exit", "dead"}

\* Worker::new and Worker::spawn
Init ==
    /\ alive = TRUE
    /\ signal_lock = None
    /\ queue = <<>>
    /\ responses = <<>>
    /\ pc = "new_watcher"
    /\ signal = None
    /\ file = None
    /\ path = None
    /\ watched = {}
    /\ result = "running"
    /\ loading = 0
    /\ workbook = Missing
    /\ fs \in [Paths -> {Missing, TableA}]
    /\ fs_changes = 0
    /\ stderr = {}
    /\ accepted = <<>>
    /\ handled = <<>>
    /\ quiet = <<>>

\* The worker waits in recv with a tracked file, nothing is in the channel
\* and no lock is recorded.
quiescent ==
    /\ pc = "recv"
    /\ queue = <<>>
    /\ signal_lock = None
    /\ path # None

\* Worker::send_response
send_response(r) == responses' = Append(responses, r)

\* send_signal with the signal put at the front of the channel.
send_signal_front(s) ==
    IF signal_lock # None /\ should_skip(s, signal_lock)
    THEN UNCHANGED <<signal_lock, queue, accepted, quiet>>
    ELSE /\ signal_lock' = IF is_lock(s) THEN s ELSE signal_lock
         /\ queue' = IF receiver_dropped THEN queue ELSE <<s>> \o queue
         /\ accepted' = Append(accepted, s)
         /\ quiet' = Append(quiet, quiescent)

\* Worker::send_signal
send_signal(s) ==
    IF signal_lock # None /\ should_skip(s, signal_lock)
    THEN UNCHANGED <<signal_lock, queue, accepted, quiet>>
    ELSE /\ signal_lock' = IF is_lock(s) THEN s ELSE signal_lock
         /\ queue' = IF receiver_dropped THEN queue ELSE Append(queue, s)
         /\ accepted' = Append(accepted, s)
         /\ quiet' = Append(quiet, quiescent)

\* Worker::reset_signal_lock
reset_signal_lock(s) ==
    signal_lock' =
        IF signal_lock = None THEN None
        ELSE IF ~can_unlock(signal_lock, s) THEN signal_lock
        ELSE None

\* What worker_impl_try leaves behind when it returns r: the receiver with
\* the signals still in the channel and the watcher are dropped.
return(r) ==
    /\ pc' = "exit"
    /\ result' = r
    /\ queue' = <<>>
    /\ watched' = {}

\* ------------------------------------------------------------ worker thread
\* worker_impl_try: notify::PollWatcher::new(...)?
NewWatcher(ok) ==
    /\ pc = "new_watcher"
    /\ IF ok
       THEN /\ pc' = "recv"
            /\ UNCHANGED <<result, queue, watched>>
       ELSE return("Err")
    /\ UNCHANGED <<alive, signal_lock, responses, signal, file, path, loading,
                   workbook, fs, fs_changes, accepted, quiet, stderr, handled>>

\* Recv with a Stop anywhere in the channel taken first.
RecvStopFirst ==
    /\ pc = "recv"
    /\ queue # <<>>
    /\ LET s == IF \E i \in 1..Len(queue) : queue[i] = Stop
                THEN Stop ELSE Head(queue)
       IN /\ signal' = s
          /\ handled' = Append(handled, s)
          /\ IF s = Stop
             THEN return("Ok")
             ELSE /\ pc' = IF s = FileDialog THEN "pick_file" ELSE "update"
                  /\ queue' = Tail(queue)
                  /\ UNCHANGED <<result, watched>>
    /\ UNCHANGED <<alive, signal_lock, responses, file, path, loading,
                   workbook, fs, fs_changes, accepted, quiet, stderr>>

\* worker_impl_try: signal_receiver.recv()? and the match on the signal.  The
\* worker holds a sender itself, so recv never fails.
Recv ==
    /\ pc = "recv"
    /\ queue # <<>>
    /\ signal' = Head(queue)
    /\ handled' = Append(handled, Head(queue))
    /\ IF Head(queue) = Stop
       THEN return("Ok")
       ELSE /\ pc' = IF Head(queue) = FileDialog THEN "pick_file" ELSE "update"
            /\ queue' = Tail(queue)
            /\ UNCHANGED <<result, watched>>
    /\ UNCHANGED <<alive, signal_lock, responses, file, path, loading,
                   workbook, fs, fs_changes, accepted, quiet, stderr>>

\* PickFile with the tracked path forgotten when the picker is cancelled.
PickFileCancelClearsPath(choice) ==
    /\ pc = "pick_file"
    /\ file' = choice
    /\ path' = IF choice = None THEN None ELSE path
    /\ pc' = IF choice = None THEN "reset" ELSE "is_file"
    /\ UNCHANGED <<alive, signal_lock, queue, responses, signal, watched,
                   result, loading, workbook, fs, fs_changes, accepted, quiet,
                   stderr, handled>>

\* Signal::FileDialog: FileDialog::new()...pick_file(), which blocks the
\* worker until the user chooses a path or cancels.
PickFile(choice) ==
    /\ pc = "pick_file"
    /\ file' = choice
    /\ pc' = IF choice = None THEN "reset" ELSE "is_file"
    /\ UNCHANGED <<alive, signal_lock, queue, responses, signal, path, watched,
                   result, loading, workbook, fs, fs_changes, accepted, quiet, stderr, handled>>

\* IsFile going back to recv without the reset when the file is missing.
IsFileSkipsReset ==
    /\ pc = "is_file"
    /\ IF is_file(fs[file])
       THEN /\ pc' = "watch"
            /\ UNCHANGED responses
       ELSE /\ send_response(Error("FileDoesNotExist"))
            /\ pc' = "recv"
    /\ UNCHANGED <<alive, signal_lock, queue, signal, file, path, watched,
                   result, loading, workbook, fs, fs_changes, accepted, quiet,
                   stderr, handled>>

\* IsFile with the tracked path forgotten when the chosen file is missing.
IsFileClearsPath ==
    /\ pc = "is_file"
    /\ IF is_file(fs[file])
       THEN /\ pc' = "watch"
            /\ UNCHANGED <<responses, path>>
       ELSE /\ send_response(Error("FileDoesNotExist"))
            /\ path' = None
            /\ pc' = "reset"
    /\ UNCHANGED <<alive, signal_lock, queue, signal, file, watched,
                   result, loading, workbook, fs, fs_changes, accepted, quiet, stderr, handled>>

\* Signal::FileDialog: if !file.is_file() { send_response(Error(..)); break }
IsFile ==
    /\ pc = "is_file"
    /\ IF is_file(fs[file])
       THEN /\ pc' = "watch"
            /\ UNCHANGED responses
       ELSE /\ send_response(Error("FileDoesNotExist"))
            /\ pc' = "reset"
    /\ UNCHANGED <<alive, signal_lock, queue, signal, file, path, watched,
                   result, loading, workbook, fs, fs_changes, accepted, quiet, stderr, handled>>

\* Signal::FileDialog: watcher.watch(&file, NonRecursive)?
Watch(ok) ==
    /\ pc = "watch"
    /\ IF ok
       THEN /\ watched' = watched \cup {file}
            /\ pc' = "load"
            /\ UNCHANGED <<result, queue>>
       ELSE return("Err")
    /\ UNCHANGED <<alive, signal_lock, responses, signal, file, path, loading,
                   workbook, fs, fs_changes, accepted, quiet, stderr, handled>>

\* The path load_file is called with.
load_path == IF signal = FileDialog THEN file ELSE path

\* load_file: calamine::open_workbook_auto(path) reads what is at the path.
LoadOpen ==
    /\ pc = "load"
    /\ workbook' = fs[load_path]
    /\ loading' = loading + 1
    /\ pc' = "loading"
    /\ UNCHANGED <<alive, signal_lock, queue, responses, signal, file, path,
                   watched, result, fs, fs_changes, accepted, quiet, stderr, handled>>

\* LoadDone with the chosen file tracked only when load_file sent an Output.
LoadDoneTracksSuccessOnly ==
    /\ pc = "loading"
    /\ send_response(load_file(workbook))
    /\ loading' = loading - 1
    /\ path' = IF signal = FileDialog /\ load_file(workbook).tag = "Output"
               THEN file ELSE path
    /\ pc' = "reset"
    /\ UNCHANGED <<alive, signal_lock, queue, signal, file, watched, result,
                   workbook, fs, fs_changes, accepted, quiet, stderr, handled>>

\* load_file: the rest of it, which sends one response; and for FileDialog
\* the assignment path = Some(file) that follows the call.
LoadDone ==
    /\ pc = "loading"
    /\ send_response(load_file(workbook))
    /\ loading' = loading - 1
    /\ path' = IF signal = FileDialog THEN file ELSE path
    /\ pc' = "reset"
    /\ UNCHANGED <<alive, signal_lock, queue, signal, file, watched, result,
                   workbook, fs, fs_changes, accepted, quiet, stderr, handled>>

\* UpdateCheck answering an error when no path is tracked.
UpdateCheckErrorsWithoutPath ==
    /\ pc = "update"
    /\ IF path = None
       THEN /\ send_response(Error("FileDoesNotExist"))
            /\ pc' = "reset"
            /\ UNCHANGED <<path, watched>>
       ELSE IF ~is_file(fs[path])
       THEN /\ watched' = watched \ {path}
            /\ path' = None
            /\ send_response(Unload)
            /\ pc' = "reset"
       ELSE /\ pc' = "load"
            /\ UNCHANGED <<path, watched, responses>>
    /\ UNCHANGED <<alive, signal_lock, queue, signal, file, result, loading,
                   workbook, fs, fs_changes, accepted, quiet, stderr, handled>>

\* UpdateCheck answering Unload also when no path is tracked.
UpdateCheckUnloadsAlways ==
    /\ pc = "update"
    /\ IF path = None \/ ~is_file(fs[path])
       THEN /\ watched' = watched \ {path}
            /\ path' = None
            /\ send_response(Unload)
            /\ pc' = "reset"
       ELSE /\ pc' = "load"
            /\ UNCHANGED <<path, watched, responses>>
    /\ UNCHANGED <<alive, signal_lock, queue, signal, file, result, loading,
                   workbook, fs, fs_changes, stderr, accepted, handled, quiet>>

\* UpdateCheck with the tracked path kept when the file is gone.
UpdateCheckKeepsPath ==
    /\ pc = "update"
    /\ IF path = None
       THEN /\ pc' = "reset"
            /\ UNCHANGED <<watched, responses>>
       ELSE IF ~is_file(fs[path])
       THEN /\ watched' = watched \ {path}
            /\ send_response(Unload)
            /\ pc' = "reset"
       ELSE /\ pc' = "load"
            /\ UNCHANGED <<watched, responses>>
    /\ UNCHANGED <<alive, signal_lock, queue, signal, file, path, result,
                   loading, workbook, fs, fs_changes, accepted, quiet, stderr, handled>>

\* Signal::Update, up to the call of load_file.
UpdateCheck ==
    /\ pc = "update"
    /\ IF path = None
       THEN /\ pc' = "reset"
            /\ UNCHANGED <<path, watched, responses>>
       ELSE IF ~is_file(fs[path])
       THEN /\ watched' = watched \ {path}
            /\ path' = None
            /\ send_response(Unload)
            /\ pc' = "reset"
       ELSE /\ pc' = "load"
            /\ UNCHANGED <<path, watched, responses>>
    /\ UNCHANGED <<alive, signal_lock, queue, signal, file, result, loading,
                   workbook, fs, fs_changes, accepted, quiet, stderr, handled>>

\* worker_impl_try: worker.reset_signal_lock(signal), the end of the loop body
Reset ==
    /\ pc = "reset"
    /\ reset_signal_lock(signal)
    /\ pc' = "recv"
    /\ UNCHANGED <<alive, queue, responses, signal, file, path, watched,
                   result, loading, workbook, fs, fs_changes, accepted, quiet, stderr, handled>>

\* SetDead clearing the alive flag only after a crash.
SetDeadOnCrashOnly ==
    /\ pc = "exit"
    /\ alive' = (result # "Err")
    /\ pc' = "dead"
    /\ stderr' = stderr \cup (IF result = "Err" THEN {"crashed"} ELSE {})
                       \cup {"shut down"}
    /\ UNCHANGED <<signal_lock, queue, responses, signal, file, path, watched,
                   result, loading, workbook, fs, fs_changes, accepted,
                   handled, quiet>>

\* worker_impl: the eprintln! lines and worker.set_alive(false) after
\* worker_impl_try returned
SetDead ==
    /\ pc = "exit"
    /\ alive' = FALSE
    /\ pc' = "dead"
    /\ stderr' = stderr \cup (IF result = "Err" THEN {"crashed"} ELSE {})
                       \cup {"shut down"}
    /\ UNCHANGED <<signal_lock, queue, responses, signal, file, path, watched,
                   result, loading, workbook, fs, fs_changes, accepted, quiet, handled>>

\* ------------------------------------------------------------------ senders
\* A caller of Worker::send_signal on the UI thread (app.rs sends FileDialog
\* for Message::SelectFile; the function is public and takes every signal).
UiSend(s) ==
    /\ Len(accepted) < MaxSends
    /\ send_signal(s)
    /\ UNCHANGED <<alive, responses, fs, fs_changes, stderr, handled>>
    /\ UNCHANGED worker_vars

\* The event kinds the watcher delivers, and an error of the event stream.
WatcherResults == {"Modify", "Remove", "Create", "Access", "Err"}

\* WatcherCallback reloading the file itself on Modify or Remove.
WatcherCallbackLoads(res) ==
    /\ watcher_running
    /\ watched # {}
    /\ loading < 2
    /\ loading' = IF res \in {"Modify", "Remove"} THEN loading + 1 ELSE loading
    /\ UNCHANGED <<alive, signal_lock, queue, responses, pc, signal, file,
                   path, watched, result, workbook, fs, fs_changes, accepted, quiet, stderr,
                   handled>>

\* WatcherCallback putting its Update into the channel without the gate.
WatcherCallbackBypassesGate(res) ==
    /\ watcher_running
    /\ watched # {}
    /\ Len(accepted) < MaxSends
    /\ IF res \in {"Modify", "Remove"}
       THEN /\ queue' = Append(queue, Update)
            /\ accepted' = Append(accepted, Update)
            /\ quiet' = Append(quiet, quiescent)
            /\ UNCHANGED signal_lock
       ELSE UNCHANGED <<signal_lock, queue, accepted, quiet>>
    /\ stderr' = IF res = "Err" THEN stderr \cup {"watcher error"} ELSE stderr
    /\ UNCHANGED <<alive, responses, fs, fs_changes, handled>>
    /\ UNCHANGED worker_vars

\* The closure given to PollWatcher::new, run on the watcher's thread.
WatcherCallback(res) ==
    /\ watcher_running
    /\ watched # {}
    /\ Len(accepted) < MaxSends
    /\ IF res \in {"Modify", "Remove"}
       THEN send_signal(Update)
       ELSE UNCHANGED <<signal_lock, queue, accepted, quiet>>
    /\ stderr' = IF res = "Err" THEN stderr \cup {"watcher error"} ELSE stderr
    /\ UNCHANGED <<alive, responses, fs, fs_changes, handled>>
    /\ UNCHANGED worker_vars

\* -------------------------------------------------------------- environment
\* Another process creates, rewrites or deletes the file at a path.
FsChange(p, c) ==
    /\ fs_changes < MaxFsChanges
    /\ c # fs[p]
    /\ fs' = [fs EXCEPT ![p] = c]
    /\ fs_changes' = fs_changes + 1
    /\ UNCHANGED <<alive, signal_lock, queue, responses, accepted, quiet, stderr, handled>>
    /\ UNCHANGED worker_vars

Next ==
    \/ \E ok \in BOOLEAN : NewWatcher(ok)
    \/ Recv
    \/ \E choice \in Paths \cup {None} : PickFile(choice)
    \/ IsFile
    \/ \E ok \in BOOLEAN : Watch(ok)
    \/ LoadOpen
    \/ LoadDone
    \/ UpdateCheck
    \/ Reset
    \/ SetDead
    \/ \E s \in Signal : UiSend(s)
    \/ \E res \in WatcherResults : WatcherCallback(res)
    \/ \E p \in Paths, c \in Contents : FsChange(p, c)

Spec == Init /\ [][Next]_vars

\* The steps of the worker thread, which runs until worker_impl returns.
WorkerNext ==
    \/ \E ok \in BOOLEAN : NewWatcher(ok)
    \/ Recv
    \/ \E choice \in Paths \cup {None} : PickFile(choice)
    \/ IsFile
    \/ \E ok \in BOOLEAN : Watch(ok)
    \/ LoadOpen
    \/ LoadDone
    \/ UpdateCheck
    \/ Reset
    \/ SetDead

\* The worker thread keeps running: every call it makes returns (the picker
\* is answered, the file system answers) and it takes its next step.
FairSpec == Spec /\ WF_vars(WorkerNext)

\* ------------------------------------------------------------------ helpers
Range(q) == {q[i] : i \in 1..Len(q)}
IsPrefix(p, q) == Len(p) <= Len(q) /\ \A i \in 1..Len(p) : p[i] = q[i]
\* q up to and including its first Stop (all of q when it holds none).
UpToFirstStop(q) ==
    IF Stop \in Range(q)
    THEN SubSeq(q, 1, CHOOSE i \in 1..Len(q) :
                         q[i] = Stop /\ \A j \in 1..(i - 1) : q[j] # Stop)
    ELSE q
\* A step of the worker thread.
WorkerStep == pc' # pc
\* The worker positions inside the handling of a dequeued signal.
HandlingPcs == {"pick_file", "is_file", "watch", "load", "loading", "update", "reset"}
\* A FileDialog has passed the gate and its handling, reset_signal_lock
\* included, is not over.
FileDialogPending ==
    \/ FileDialog \in Range(queue)
    \/ signal = FileDialog /\ pc \in HandlingPcs
\* The file the picker returned exists and load_file answers Output for it.
ChosenFileLoads == file # None /\ load_file(fs[file]).tag = "Output"

\* ------------------------------------------------------------------- claims
C1_UpdateDroppedWhileFileDialogPending_Step ==
    (FileDialogPending /\ Len(queue') > Len(queue))
       => queue'[Len(queue')] # Update

\* C1 (as claimed; refuted): while a FileDialog that passed the gate is not
\* fully processed, no send_signal call enqueues an Update.
C1_UpdateDroppedWhileFileDialogPending == [][C1_UpdateDroppedWhileFileDialogPending_Step]_vars

C2_StopAbsorbsAll_Step ==
    Stop \in Range(accepted) => Len(queue') <= Len(queue)

\* C2 (as claimed; refuted): once a Stop has passed the gate, no later
\* send_signal call enqueues anything.
C2_StopAbsorbsAll == [][C2_StopAbsorbsAll_Step]_vars

C3_StopLockNeverCleared_Step ==
    signal_lock = Stop => signal_lock' = Stop

\* C3 (as claimed; refuted): once the recorded lock is Stop it stays Stop.
C3_StopLockNeverCleared == [][C3_StopLockNeverCleared_Step]_vars

\* C4: the signals the worker loop has received are a prefix of the signals
\* that passed the gate, in the same order.
C4_HandledIsPrefixOfAccepted == IsPrefix(handled, accepted)

\* C4 witness: two different signals from the gate were received in their
\* order while a third one is still in the channel.
C4_Witness ==
    /\ handled = <<Update, FileDialog>>
    /\ accepted = <<Update, FileDialog, Stop>>
    /\ queue = <<Stop>>

C5_AtMostOneActiveLoad_Step ==
    /\ loading' <= 1
    /\ (loading' > loading => pc = "load" /\ pc' = "loading")
    /\ (handled' # handled => pc = "recv" /\ loading = 0)

\* C5: at most one load is in progress, a load starts only on the worker
\* thread at its call of load_file, and the worker receives the next signal
\* only from its recv position, which it reaches after reset_signal_lock.
C5_AtMostOneActiveLoad == [][C5_AtMostOneActiveLoad_Step]_vars

\* C5 witness: an Update-driven load is in progress while a FileDialog waits
\* in the channel.
C5_Witness ==
    /\ loading = 1
    /\ signal = Update
    /\ FileDialog \in Range(queue)

\* A FileDialog is next in the channel, a Stop is behind it, and the worker
\* is waiting to receive.
FileDialogQueuedBeforeStop ==
    /\ pc = "recv"
    /\ queue # <<>>
    /\ Head(queue) = FileDialog
    /\ Stop \in Range(Tail(queue))

C6_QueuedFileDialogDiscarded_Step ==
    (FileDialogQueuedBeforeStop /\ WorkerStep) => pc' # "pick_file"

\* C6 (as claimed; refuted): a FileDialog that is queued when Stop is sent
\* is discarded: no picker is shown for it.
C6_QueuedFileDialogDiscarded == [][C6_QueuedFileDialogDiscarded_Step]_vars

C6_QueuedFileDialogHandledBeforeStop_Step ==
    /\ (FileDialogQueuedBeforeStop /\ WorkerStep)
         => /\ pc' = "pick_file"
            /\ signal' = FileDialog
            /\ result' = "running"
            /\ alive'
            /\ Stop \in Range(queue')
    /\ (result' = "Ok" => handled' = UpToFirstStop(accepted'))

\* C6 (amended): the queued FileDialog is received first and its picker is
\* shown while the worker stays alive; the worker returns by Stop only when
\* it has received every signal that passed the gate before the first Stop.
C6_QueuedFileDialogHandledBeforeStop == [][C6_QueuedFileDialogHandledBeforeStop_Step]_vars

\* C6 witness: the picker of a FileDialog is open while the Stop sent after
\* it waits in the channel.
C6_Witness ==
    /\ pc = "pick_file"
    /\ signal = FileDialog
    /\ queue = <<Stop>>

C7_UnloadOnDisappearance_Step ==
    /\ (pc = "update" /\ path # None /\ ~is_file(fs[path]) /\ WorkerStep)
         => /\ responses' = Append(responses, Unload)
            /\ path' = None
            /\ watched' = watched \ {path}
            /\ path \notin watched'
            /\ loading' = loading
            /\ pc' = "reset"
    /\ (pc = "reset" /\ signal = Update /\ WorkerStep)
         => /\ responses' = responses
            /\ path' = path
            /\ watched' = watched

\* C7: handling an Update whose tracked path is no longer a file sends
\* exactly Response::Unload, clears the tracked path, unwatches it and
\* starts no load; the reset that ends the handling sends nothing.
C7_UnloadOnDisappearance == [][C7_UnloadOnDisappearance_Step]_vars

\* C7 witness: the worker has answered Unload to an Update for a file that
\* was tracked and has disappeared.
C7_Witness ==
    /\ pc = "reset"
    /\ signal = Update
    /\ path = None
    /\ responses # <<>>
    /\ responses[Len(responses)] = Unload
    /\ \E i \in 1..Len(responses) : responses[i].tag = "Output"

C8_LoadFailuresRecoverable_Step ==
    (pc \in HandlingPcs /\ WorkerStep)
       => /\ pc' \notin {"exit", "dead"}
          /\ alive'
          /\ result' = "running"
          /\ (pc = "is_file" /\ ~is_file(fs[file])
                => responses' = Append(responses, Error("FileDoesNotExist")))
          /\ (pc = "loading" /\ load_file(workbook).tag # "Output"
                => /\ Len(responses') = Len(responses) + 1
                   /\ responses'[Len(responses')].tag = "Error")

\* C8 (as claimed; refuted): no step of the handling of a FileDialog or an
\* Update ends the worker, and each failure of a load attempt sends one
\* Response::Error.
C8_LoadFailuresRecoverable == [][C8_LoadFailuresRecoverable_Step]_vars

C9_FileDialogLoadsChosenFile_Step ==
    (signal = FileDialog /\ pc \in HandlingPcs \ {"pick_file"}
       /\ ChosenFileLoads /\ WorkerStep)
       => CASE pc = "is_file" -> pc' = "watch" /\ responses' = responses
            [] pc = "watch" -> pc' = "load" /\ responses' = responses
            [] pc = "load" -> pc' = "loading" /\ responses' = responses
            [] pc = "loading" ->
                 /\ load_file(workbook).tag = "Output"
                      => responses' = Append(responses,
                             Output(calculate_output(
                               [i \in 1..Len(workbook.sheet.col0) |->
                                   workbook.sheet.col0[i].v])))
                 /\ Len(responses') = Len(responses) + 1
                 /\ path' = file
                 /\ pc' = "reset"
            [] pc = "reset" -> responses' = responses /\ path' = path

\* C9 (as claimed; refuted): the handling of a FileDialog whose chosen file
\* exists and parses sends exactly one response, the Output with the points
\* of the file in row order, and ends with that file as the tracked path.
C9_FileDialogLoadsChosenFile == [][C9_FileDialogLoadsChosenFile_Step]_vars

C10_MissingFileKeepsState_Step ==
    /\ (pc = "is_file" /\ ~is_file(fs[file]) /\ WorkerStep)
         => /\ responses' = Append(responses, Error("FileDoesNotExist"))
            /\ watched' = watched
            /\ path' = path
            /\ pc' = "reset"
            /\ alive'
    /\ ((pc' = "pick_file" \/ pc = "pick_file"
           \/ (pc = "reset" /\ signal = FileDialog)) /\ WorkerStep)
         => /\ responses' = responses
            /\ watched' = watched
            /\ path' = path

\* C10: the handling of a FileDialog whose chosen path is not a file sends
\* exactly Response::Error(FileDoesNotExist), registers no watch and leaves
\* the tracked path as it was; receiving the signal, the picker and the
\* reset send nothing and leave path and watches alone.
C10_MissingFileKeepsState == [][C10_MissingFileKeepsState_Step]_vars

\* C10 witness: a file is tracked, and the worker has answered
\* FileDoesNotExist to a FileDialog for another path and still tracks it.
C10_Witness ==
    /\ pc = "reset"
    /\ signal = FileDialog
    /\ path # None
    /\ file # None
    /\ file # path
    /\ path \in watched
    /\ responses # <<>>
    /\ responses[Len(responses)] = Error("FileDoesNotExist")

\* The Update accepted as number k was sent in a quiescent state with a
\* tracked file and the worker has not finished handling it.
FirstUpdateUnfinished ==
    \E k \in 1..Len(accepted) :
        /\ accepted[k] = Update
        /\ quiet[k]
        /\ \/ Len(handled) < k
           \/ Len(handled) = k /\ pc \in HandlingPcs

C11_SecondUpdateSkipped_Step ==
    (FirstUpdateUnfinished /\ Len(queue') > Len(queue))
       => queue'[Len(queue')] # Update

\* C11: after an Update sent in a quiescent state with a tracked file, no
\* Update sent before the worker has finished handling it is enqueued, so
\* the file is reloaded once.
C11_SecondUpdateSkipped == [][C11_SecondUpdateSkipped_Step]_vars

\* C11 witness: the reload for such an Update is in progress, the Update is
\* the recorded lock and the watcher can deliver an event.
C11_Witness ==
    /\ FirstUpdateUnfinished
    /\ pc = "loading"
    /\ signal = Update
    /\ signal_lock = Update
    /\ queue = <<>>
    /\ watcher_running
    /\ path \in watched

C12_UnloadOnlyForVanishedFile_Step ==
    /\ Signal = {Update, FileDialog, Stop}
    /\ (Len(responses') > Len(responses)
          /\ responses'[Len(responses')] = Unload)
         => /\ pc = "update"
            /\ signal = Update
            /\ path # None
            /\ path' = None
    /\ (pc = "update" /\ path = None /\ WorkerStep)
         => /\ responses' = responses
            /\ path' = None
            /\ watched' = watched
            /\ pc' = "reset"

C13_AliveUntilExit_Step == ~alive => ~alive'

\* C13: under FairSpec, once a Stop has passed the gate the worker loop
\* exits and alive becomes false; alive is true until the worker is dead
\* and never becomes true again.
C13_StopTerminatesWorker ==
    /\ (Stop \in Range(accepted)) ~> ~alive
    /\ [](pc # "dead" => alive)
    /\ [][C13_AliveUntilExit_Step]_vars

\* C13 witness: the worker received a Stop, returned Ok and is not alive.
C13_Witness ==
    /\ ~alive
    /\ result = "Ok"
    /\ handled # <<>>
    /\ handled[Len(handled)] = Stop

C14_DeadWorkerAcceptsNothing_Step ==
    /\ pc' = "dead" => ~alive'
    /\ ~alive => /\ queue' = queue
                 /\ handled' = handled
                 /\ signal_lock' = signal_lock

\* C14 (as claimed; refuted): once the worker is dead alive is false, and
\* no send_signal call enqueues a signal or changes the recorded lock.
C14_DeadWorkerAcceptsNothing == [][C14_DeadWorkerAcceptsNothing_Step]_vars

\* The watcher, respectively the UI, sends an Update that passes the gate.
WatcherUpdateAccepted == WatcherCallback("Modify") /\ accepted' # accepted
UiUpdateAccepted == UiSend(Update) /\ accepted' # accepted

C15_WatcherGoesThroughGate_Step ==
    /\ \A res \in WatcherResults :
          WatcherCallback(res)
             => /\ IF res \in {"Modify", "Remove"}
                   THEN UiSend(Update)
                   ELSE UNCHANGED <<signal_lock, queue, accepted>>
                /\ UNCHANGED <<path, alive, watched, pc, responses>>
    /\ (watcher_running /\ watched # {})
         => (ENABLED WatcherUpdateAccepted <=> ENABLED UiUpdateAccepted)

\* C15: a step of the watcher callback for Modify or Remove is a step of
\* send_signal(Update) as the UI takes it, accepted in the same states; for
\* other results it sends nothing; it never writes path, alive, the watches
\* or the lock by another route.
C15_WatcherGoesThroughGate == [][C15_WatcherGoesThroughGate_Step]_vars

\* C15 witness: a file is watched and tracked, the worker waits, and an
\* Update sent in that state has passed the gate and is the recorded lock.
C15_Witness ==
    /\ watcher_running
    /\ path \in watched
    /\ pc = "recv"
    /\ queue = <<Update>>
    /\ signal_lock = Update
    /\ quiet # <<>>
    /\ quiet[Len(quiet)]

C16_WatcherErrorsAreData_Step ==
    /\ (pc = "new_watcher" /\ WorkerStep /\ pc' # "recv")
         => /\ responses' = Append(responses, Error("WatcherFailed"))
            /\ result' = "running"
            /\ alive'
    /\ ("watcher error" \in stderr' /\ "watcher error" \notin stderr)
         => /\ responses' = Append(responses, Error("WatcherFailed"))
            /\ alive'

\* C16 (as claimed; refuted): a failed construction of the watcher and an
\* error of its event stream each send Response::Error(WatcherFailed) and
\* leave the worker running.
C16_WatcherErrorsAreData == [][C16_WatcherErrorsAreData_Step]_vars

C17_UnlockRule_Step ==
    (pc = "reset" /\ WorkerStep /\ signal_lock # None /\ signal_lock' = None)
       => /\ signal_lock # Stop
          /\ Rank(signal) >= Rank(signal_lock)

\* C17 (as claimed; refuted): reset_signal_lock(processed) clears a recorded
\* lock only when the lock is not Stop and processed has at least its rank.
C17_UnlockRule == [][C17_UnlockRule_Step]_vars

C18_PromotionOneWay_Step ==
    /\ (signal_lock = FileDialog /\ UiSend(Stop))
         => /\ signal_lock' = Stop
            /\ accepted' = Append(accepted, Stop)
            /\ receiver_dropped \/ queue' = Append(queue, Stop)
    /\ signal_lock = Stop
         => accepted' = accepted /\ Len(queue') <= Len(queue)
    /\ (accepted' # accepted /\ signal_lock # None)
         => Rank(signal_lock') > Rank(signal_lock)

\* C18: send_signal(Stop) under a FileDialog lock records Stop and enqueues
\* it; under a Stop lock no send_signal passes the gate; and a send_signal
\* that passes the gate under a recorded lock records a higher signal.
C18_PromotionOneWay == [][C18_PromotionOneWay_Step]_vars

\* C18 witness: a Stop was sent while the picker of a FileDialog was
\* pending, and is now the recorded lock, queued behind nothing else.
C18_Witness ==
    /\ accepted = <<FileDialog, Stop>>
    /\ signal_lock = Stop
    /\ signal = FileDialog
    /\ pc = "pick_file"
    /\ queue = <<Stop>>

C19_EverySignalIsLock_Step ==
    /\ signal_lock' \in {None} \cup Signal
    /\ accepted' # accepted
         => signal_lock' = accepted'[Len(accepted')]
    /\ (signal_lock = Update /\ Len(queue') > Len(queue))
         => queue'[Len(queue')] # Update

C20_AtMostOneWatchedPath ==
    /\ Cardinality(watched) <= 1
    /\ (pc = "recv" /\ path # None) => watched = {path}

C21_TrackedPathFollowsSuccessfulLoads_Step ==
    (pc = "loading" /\ signal = FileDialog /\ WorkerStep)
       => /\ Len(responses') = Len(responses) + 1
          /\ IF load_file(workbook).tag = "Output"
             THEN path' = file
             ELSE /\ responses'[Len(responses')].tag = "Error"
                  /\ path' = None

C21_ChosenFileTrackedAfterLoad_Step ==
    /\ (pc = "loading" /\ signal = FileDialog /\ WorkerStep)
         => /\ responses' = Append(responses, load_file(workbook))
            /\ path' = file
            /\ file \in watched'
            /\ pc' = "reset"
    /\ (path' # path /\ path' # None)
         => pc = "loading" /\ signal = FileDialog
    /\ (pc = "update" /\ path # None /\ is_file(fs[path]) /\ WorkerStep)
         => pc' = "load" /\ responses' = responses
    /\ (pc = "loading" /\ signal = Update /\ WorkerStep)
         => /\ responses' = Append(responses, load_file(workbook))
            /\ path' = path

C22_CancelledPicker_Step ==
    /\ (pc = "pick_file" /\ WorkerStep /\ file' = None)
         => /\ pc' = "reset"
            /\ UNCHANGED <<responses, path, watched, alive, result, loading>>
    /\ (pc = "reset" /\ signal = FileDialog /\ file = None /\ WorkerStep)
         => /\ pc' = "recv"
            /\ alive'
            /\ UNCHANGED <<responses, path, watched, result, loading>>

\* C22: when the picker of a FileDialog returns no file, the handling goes
\* on to reset_signal_lock and back to recv; it sends no response, starts no
\* load, leaves the tracked path and the watched paths as they were and the
\* worker stays alive.
C22_CancelledPicker == [][C22_CancelledPicker_Step]_vars

\* C22 witness: a file is tracked and watched, and the picker of a later
\* FileDialog was cancelled; the one response is that of the first load.
C22_Witness ==
    /\ handled = <<FileDialog, FileDialog>>
    /\ pc = "reset"
    /\ file = None
    /\ path # None
    /\ path \in watched
    /\ Len(responses) = 1
    /\ alive

C23_UpdateWithoutFile_Step ==
    /\ (pc = "recv" /\ WorkerStep /\ signal' = Update)
         => /\ pc' = "update"
            /\ UNCHANGED <<responses, path, watched, loading>>
    /\ (pc = "update" /\ path = None /\ WorkerStep)
         => /\ pc' = "reset"
            /\ UNCHANGED <<responses, path, watched, loading, workbook>>
    /\ (pc = "reset" /\ signal = Update /\ WorkerStep)
         => /\ pc' = "recv"
            /\ UNCHANGED <<responses, path, watched, loading, workbook>>

\* C23: the handling of an Update while no path is tracked, from its
\* receipt to its reset_signal_lock, sends no response, reads no file and
\* leaves the tracked path and the watched paths unchanged.
C23_UpdateWithoutFile == [][C23_UpdateWithoutFile_Step]_vars

\* C23 witness: an Update was handled before any file was chosen: nothing
\* was sent, nothing is tracked or watched, and a FileDialog waits behind it.
C23_Witness ==
    /\ handled = <<Update>>
    /\ pc = "reset"
    /\ path = None
    /\ watched = {}
    /\ responses = <<>>
    /\ queue = <<FileDialog>>

C24_ResetAfterEveryHandledSignal_Step ==
    /\ handled' # handled
         => /\ pc = "recv"
            /\ handled' = Append(handled, signal')
            /\ signal' # Stop => pc' \in HandlingPcs
    /\ (pc \in HandlingPcs /\ WorkerStep)
         => /\ signal # Stop
            /\ signal = handled[Len(handled)]
            /\ signal' = signal
            /\ pc' \in HandlingPcs \cup {"recv", "exit"}
            /\ pc' = "exit" => result' = "Err"
            /\ pc' = "recv" => pc = "reset" /\ reset_signal_lock(signal)
    /\ (pc = "pick_file" /\ WorkerStep /\ file' = None) => pc' = "reset"
    /\ (pc = "is_file" /\ ~is_file(fs[file]) /\ WorkerStep) => pc' = "reset"
    /\ (pc = "loading" /\ WorkerStep) => pc' = "reset"
    /\ (pc = "update" /\ (path = None \/ ~is_file(fs[path])) /\ WorkerStep)
         => pc' = "reset"

\* C24: the worker receives a signal only from recv; the handling of a
\* received signal other than Stop keeps that signal and leaves the handling
\* either by a fatal return or through reset_signal_lock called with that
\* same signal, which is the only way back to recv; a cancelled picker, a
\* missing file, a finished load (failed or not), an Update with no path
\* and an Update whose file is gone all go on to that reset.
C24_ResetAfterEveryHandledSignal == [][C24_ResetAfterEveryHandledSignal_Step]_vars

\* C24 witness: the handling of a FileDialog is at its reset while the
\* recorded lock is the Update that was sent during the handling.
C24_Witness ==
    /\ pc = "reset"
    /\ signal = FileDialog
    /\ signal_lock = Update
    /\ queue = <<Update>>

\* The worker is alive and waits in recv with nothing in the channel.
WaitingIdle == alive /\ pc = "recv" /\ queue = <<>>

C25_NoPermanentSuppression_Step ==
    /\ WaitingIdle => signal_lock = None
    /\ \A s \in Signal :
          (WaitingIdle /\ UiSend(s))
             => /\ accepted' = Append(accepted, s)
                /\ queue' = <<s>>
                /\ signal_lock' = s

\* C25: whenever the worker is alive and waits in recv with an empty
\* channel, no lock is recorded, and a send_signal of any signal in that
\* state passes the gate and is enqueued.
C25_NoPermanentSuppression == [][C25_NoPermanentSuppression_Step]_vars

\* C25 witness: after an Update and a FileDialog that loaded a file were
\* both handled, the worker waits with an empty channel and no lock.
C25_Witness ==
    /\ WaitingIdle
    /\ signal_lock = None
    /\ handled = <<Update, FileDialog>>
    /\ accepted = handled
    /\ path # None

\* The file the worker tracks, or is about to track at the end of a load.
TrackedFile == IF pc = "loading" THEN load_path ELSE path
\* No load is pending: no signal that loads waits in the channel and the
\* worker is not in a handling that has its read of the file still ahead.
NoLoadAhead ==
    /\ Range(queue) \cap {Update, FileDialog} = {}
    /\ pc \in {"recv", "loading", "reset"}
\* The tracked file was rewritten after the last load read it.
ReadIsOlder ==
    /\ TrackedFile # None
    /\ TrackedFile \in watched
    /\ is_file(fs[TrackedFile])
    /\ workbook # fs[TrackedFile]

\* C26 (as claimed; refuted): in no state in which the last read of the
\* tracked file is older than the file and no load is pending does the gate
\* discard an Update of the watcher.
C26_NoLostChange ==
    (alive /\ watcher_running /\ ReadIsOlder /\ NoLoadAhead)
       => ~(signal_lock # None /\ should_skip(Update, signal_lock))

\* The number of FileDialog signals that passed the gate and are in the
\* channel or in a handling that has not reached the end of its reset.
PendingFileDialogs ==
    Cardinality({i \in 1..Len(queue) : queue[i] = FileDialog})
      + (IF signal = FileDialog /\ pc \in HandlingPcs THEN 1 ELSE 0)

\* C27 (as claimed; refuted): at most one FileDialog is pending, in the
\* channel or in its handling before the end of its reset_signal_lock.
C27_AtMostOnePendingPicker == PendingFileDialogs <= 1

====
